---- MODULE Spec2Model ----
(***************************************************************************)
(* Model of the pylint plugin BlockingCallsChecker                         *)
(* (src/src/pylint_blocking_calls/blocking_calls.py and helpers.py).       *)
(*                                                                         *)
(* The checker is driven by the host: visit_call(call) for every Call node *)
(* of the module being linted, close() at the end.  Its state is the three *)
(* caches built in __init__ plus the messages handed to add_message.       *)
(*                                                                         *)
(* The analysed program is a fixed set of astroid nodes (FunctionDefs and  *)
(* Call nodes); the host may visit any of the Call nodes, each at most     *)
(* once, in any order, and may call close() at any time.                   *)
(*                                                                         *)
(*   # module test_file                                                    *)
(*   get_session()                            # t1 (module scope)          *)
(*   class Object:                                                         *)
(*       class_property = session.commit()    # t2 (class body)            *)
(*   @functools.cache                                                      *)
(*   def get_session():                                                    *)
(*       session.commit()                     # a1                         *)
(*       barbican().secrets.get()             # a2                         *)
(*       helper()                             # a3                         *)
(*   def fetch():                                                          *)
(*       session.commit()                     # f1                         *)
(*   def helper():                                                         *)
(*       get_session()                        # b1                         *)
(*       helper()                             # b2                         *)
(*       fetch()                              # b3                         *)
(*       x[0]()                               # u1                         *)
(*       closure()()                          # u2                         *)
(*       "".join(["a", "b"])                  # u3                         *)
(*       {i: i for i in range(5)}.get(0)      # u4                         *)
(*   async def handler():                                                  *)
(*       helper()                             # c1                         *)
(*       get_session()                        # c2                         *)
(*       await session.commit()               # c3                         *)
(*       threaded()                           # c4                         *)
(*       delete_flow()                        # c5                         *)
(*   async def worker():                                                   *)
(*       get_session()                        # d1                         *)
(*       handler()                            # d2                         *)
(*   @thread                                                               *)
(*   def threaded():                                                       *)
(*       get_session()                        # e1                         *)
(*   @thread                                                               *)
(*   async def offloaded():                                                *)
(*       get_session()                        # e3                         *)
(*   class Object:                         # (continued)                   *)
(*       async def run(self):                                              *)
(*           self.step()                      # m1                         *)
(*       def step(self):                                                   *)
(*           self.session.commit()            # m2                         *)
(*   def delete_flow():                                                    *)
(*       get_session()                        # s1                         *)
(*   async def delete_flow_async():                                        *)
(*       session.commit()                     # s2                         *)
(*                                                                         *)
(*   # module src.worker.task                                              *)
(*   async def job():                                                      *)
(*       session.commit()                     # w1                         *)
(*                                                                         *)
(* A second set of Call nodes exercises name resolution (get_call_name,    *)
(* get_function_name, _get_calls_of_function); the host visits it under    *)
(* SpecNames, together with m1, m2, b3, f1 and c1 of the program above.    *)
(*                                                                         *)
(*   class Object:                            # (continued)                *)
(*       @classmethod                                                      *)
(*       def make(cls):                                                    *)
(*           cls.step()                       # m3                         *)
(*       def chained(self):                                                *)
(*           g()()...()                       # x3 (101 calls of a call)   *)
(*   class Other:                                                          *)
(*       def step(self):                                                   *)
(*           self.step()                      # n1                         *)
(*   def query():                                                          *)
(*       q.f().f()....f()                     # x1 (51 times .f())         *)
(*       q.f().f()....f()                     # x2 (50 times .f())         *)
(***************************************************************************)
EXTENDS Integers, Sequences, FiniteSets, TLC

VARIABLES
    all_visited_calls,            \* self._all_visited_calls: name -> list of Call
    calls_of_blocking_functions,  \* self._calls_of_blocking_functions: list of Call
    blocking_calls_hashes,        \* self._blocking_calls_hashes: set of hashes
    messages,                     \* what add_message was given, in order
    current_name,                 \* self.linter.current_name
    raised,                       \* an exception escaped a handler
    last                          \* the method the host called last, the Call node it
                                  \* visited last, how deep the last close() recursed
                                  \* and how many diagnostics it emitted

vars == <<all_visited_calls, calls_of_blocking_functions, blocking_calls_hashes,
          messages, current_name, raised, last>>

-----------------------------------------------------------------------------
(* Bounds *)

\* visit_call records at most this many Call nodes
MaxCalls == 3

\* the interpreter's recursion limit (sys.getrecursionlimit()), scaled down
RecursionLimit == 8

-----------------------------------------------------------------------------
(* astroid expression nodes (the shapes get_call_name tells apart).  An     *)
(* expression is kept as the sequence of the nodes on its receiver chain,  *)
(* innermost first: its last element is the node itself, the elements      *)
(* before it are the node's expr (Attribute) or func (Call).               *)

NameNode(name) == <<[type |-> "Name", name |-> name]>>

AttributeNode(expr, attrname) == Append(expr, [type |-> "Attribute", attrname |-> attrname])

CallNode(func) == Append(func, [type |-> "Call"])

OtherNode(type) == <<[type |-> type]>>

\* the node an expression is, and the expression below it (.expr or .func)
node_of(expression) == expression[Len(expression)]

child_of(expression) == SubSeq(expression, 1, Len(expression) - 1)

-----------------------------------------------------------------------------
(* The analysed program: function definitions and other frames *)

NoDecorators == <<>>

FrameDef(type, name, is_method, parent_name, decorators) ==
    [type |-> type, name |-> name, is_method |-> is_method,
     parent_name |-> parent_name, decorators |-> decorators]

Frames ==
    [f \in {"module", "class_Object", "get_session", "fetch", "helper", "handler", "worker",
            "threaded", "offloaded", "run", "step", "delete_flow", "delete_flow_async", "job",
            "make", "chained", "Other_step", "query"} |->
       CASE f = "module"       -> FrameDef("Module", "test_file", FALSE, "", NoDecorators)
         [] f = "class_Object" -> FrameDef("ClassDef", "Object", FALSE, "test_file", NoDecorators)
         [] f = "get_session"  -> FrameDef("FunctionDef", "get_session", FALSE, "test_file",
                                           <<[type |-> "Attribute", as_string |-> "functools.cache"]>>)
         [] f = "fetch"        -> FrameDef("FunctionDef", "fetch", FALSE, "test_file", NoDecorators)
         [] f = "helper"       -> FrameDef("FunctionDef", "helper", FALSE, "test_file", NoDecorators)
         [] f = "handler"      -> FrameDef("AsyncFunctionDef", "handler", FALSE, "test_file", NoDecorators)
         [] f = "worker"       -> FrameDef("AsyncFunctionDef", "worker", FALSE, "test_file", NoDecorators)
         [] f = "threaded"     -> FrameDef("FunctionDef", "threaded", FALSE, "test_file",
                                           <<[type |-> "Name", as_string |-> "thread"]>>)
         [] f = "offloaded"    -> FrameDef("AsyncFunctionDef", "offloaded", FALSE, "test_file",
                                           <<[type |-> "Name", as_string |-> "thread"]>>)
         [] f = "run"          -> FrameDef("AsyncFunctionDef", "run", TRUE, "Object", NoDecorators)
         [] f = "step"         -> FrameDef("FunctionDef", "step", TRUE, "Object", NoDecorators)
         [] f = "delete_flow"  -> FrameDef("FunctionDef", "delete_flow", FALSE, "test_file", NoDecorators)
         [] f = "delete_flow_async" ->
                                  FrameDef("AsyncFunctionDef", "delete_flow_async", FALSE, "test_file", NoDecorators)
         [] f = "job"          -> FrameDef("AsyncFunctionDef", "job", FALSE, "src.worker.task", NoDecorators)
         [] f = "make"         -> FrameDef("FunctionDef", "make", TRUE, "Object",
                                           <<[type |-> "Name", as_string |-> "classmethod"]>>)
         [] f = "chained"      -> FrameDef("FunctionDef", "chained", TRUE, "Object", NoDecorators)
         [] f = "Other_step"   -> FrameDef("FunctionDef", "step", TRUE, "Other", NoDecorators)
         [] f = "query"        -> FrameDef("FunctionDef", "query", FALSE, "test_file", NoDecorators)]

\* A Call node: its func expression, the frame call.frame() returns, whether
\* call.parent is an Await node, and the module it is in.
CallDef(func, frame, awaited, module) ==
    [func |-> func, frame |-> frame, awaited |-> awaited, module |-> module]

SessionCommit == AttributeNode(NameNode("session"), "commit")

ProgramCalls ==
    [c \in {"t1", "t2", "a1", "a2", "a3", "f1", "b1", "b2", "b3", "u1", "u2", "u3", "u4", "c1", "c2", "c3", "c4",
            "c5", "d1", "d2", "e1", "e3", "m1", "m2", "s1", "s2", "w1"} |->
       CASE c = "t1" -> CallDef(NameNode("get_session"), "module", FALSE, "test_file")
         [] c = "t2" -> CallDef(SessionCommit, "class_Object", FALSE, "test_file")
         [] c = "a1" -> CallDef(SessionCommit, "get_session", FALSE, "test_file")
         [] c = "a2" -> CallDef(AttributeNode(AttributeNode(CallNode(NameNode("barbican")),
                                                            "secrets"), "get"),
                                "get_session", FALSE, "test_file")
         [] c = "a3" -> CallDef(NameNode("helper"), "get_session", FALSE, "test_file")
         [] c = "b1" -> CallDef(NameNode("get_session"), "helper", FALSE, "test_file")
         [] c = "b2" -> CallDef(NameNode("helper"), "helper", FALSE, "test_file")
         [] c = "b3" -> CallDef(NameNode("fetch"), "helper", FALSE, "test_file")
         [] c = "f1" -> CallDef(SessionCommit, "fetch", FALSE, "test_file")
         [] c = "u1" -> CallDef(OtherNode("Subscript"), "helper", FALSE, "test_file")
         [] c = "u2" -> CallDef(CallNode(NameNode("closure")), "helper", FALSE, "test_file")
         [] c = "u3" -> CallDef(AttributeNode(OtherNode("Const"), "join"), "helper", FALSE, "test_file")
         [] c = "u4" -> CallDef(AttributeNode(OtherNode("DictComp"), "get"), "helper", FALSE, "test_file")
         [] c = "c1" -> CallDef(NameNode("helper"), "handler", FALSE, "test_file")
         [] c = "c2" -> CallDef(NameNode("get_session"), "handler", FALSE, "test_file")
         [] c = "c3" -> CallDef(SessionCommit, "handler", TRUE, "test_file")
         [] c = "c4" -> CallDef(NameNode("threaded"), "handler", FALSE, "test_file")
         [] c = "c5" -> CallDef(NameNode("delete_flow"), "handler", FALSE, "test_file")
         [] c = "d1" -> CallDef(NameNode("get_session"), "worker", FALSE, "test_file")
         [] c = "d2" -> CallDef(NameNode("handler"), "worker", FALSE, "test_file")
         [] c = "e1" -> CallDef(NameNode("get_session"), "threaded", FALSE, "test_file")
         [] c = "e3" -> CallDef(NameNode("get_session"), "offloaded", FALSE, "test_file")
         [] c = "m1" -> CallDef(AttributeNode(NameNode("self"), "step"), "run", FALSE, "test_file")
         [] c = "m2" -> CallDef(AttributeNode(AttributeNode(NameNode("self"), "session"), "commit"),
                                "step", FALSE, "test_file")
         [] c = "s1" -> CallDef(NameNode("get_session"), "delete_flow", FALSE, "test_file")
         [] c = "s2" -> CallDef(SessionCommit, "delete_flow_async", FALSE, "test_file")
         [] c = "w1" -> CallDef(SessionCommit, "job", FALSE, "src.worker.task")]

\* the func expression of q.f().f()...f() with n times .f(): n Attribute nodes
\* and n - 1 Call nodes lie above the Name q
FluentCalls(receiver, attrname, n) ==
    NameNode(receiver) \o [i \in 1..(2 * n - 1) |->
                              IF i % 2 = 1 THEN [type |-> "Attribute", attrname |-> attrname]
                              ELSE [type |-> "Call"]]

\* the func expression of g()()...(): n Call nodes lie above the Name g
NestedCalls(name, n) == NameNode(name) \o [i \in 1..n |-> [type |-> "Call"]]

\* the limit of the while loop of get_call_name
reasonable_calls_length == 100

\* the Call nodes that exercise name resolution: x1 lies 101 steps above its
\* Name, x2 99 steps, x3 101 steps
ResolutionCalls ==
    [c \in {"m3", "n1", "x1", "x2", "x3"} |->
       CASE c = "m3" -> CallDef(AttributeNode(NameNode("cls"), "step"), "make", FALSE, "test_file")
         [] c = "n1" -> CallDef(AttributeNode(NameNode("self"), "step"), "Other_step", FALSE, "test_file")
         [] c = "x1" -> CallDef(FluentCalls("q", "f", reasonable_calls_length \div 2 + 1),
                                "query", FALSE, "test_file")
         [] c = "x2" -> CallDef(FluentCalls("q", "f", reasonable_calls_length \div 2),
                                "query", FALSE, "test_file")
         [] c = "x3" -> CallDef(NestedCalls("g", reasonable_calls_length + 1),
                                "chained", FALSE, "test_file")]

Calls == ProgramCalls @@ ResolutionCalls

\* the Call nodes the host visits under Spec, and under SpecNames
CallIds == DOMAIN ProgramCalls

ResolutionCallIds == DOMAIN ResolutionCalls \cup {"m1", "m2", "b3", "f1", "c1"}

Modules == {"test_file", "src.worker.task"}

\* call.frame()
frame(call) == Frames[Calls[call].frame]

-----------------------------------------------------------------------------
(* Configuration: the regexp_csv options.  A compiled regexp is given by   *)
(* its source text and the strings of this program that regexp.match       *)
(* accepts.                                                                *)

Regexp(source, matches) == [source |-> source, matches |-> matches]

\* regexp.match(string)
match(regexp, string) == string \in regexp.matches

blocking_function_names ==
    << Regexp("^get_session$", {"get_session"}),
       Regexp("^.*session.*\\.(commit|delete|rollback|refresh|close)$",
              {"session.commit", "Object.session.commit"}),
       Regexp("^.*barbican.*\\..+$", {"barbican.secrets.get"}) >>

skip_functions == << Regexp("^delete_.+$", {"delete_flow", "delete_flow_async"}) >>

skip_modules == << Regexp("^src\\.worker\\..+$", {"src.worker.task"}) >>

skip_decorated == << Regexp("^thread$", {"thread"}) >>

\* for regexp in patterns: if regexp.match(string): ...
any_match(patterns, string) == \E i \in 1..Len(patterns) : match(patterns[i], string)

-----------------------------------------------------------------------------
(* helpers.py *)

\* get_function_decorator_names: only decorators that are plain names count
RECURSIVE decorator_names_of(_)
decorator_names_of(nodes) ==
    IF nodes = <<>> THEN <<>>
    ELSE (IF Head(nodes).type = "Name" THEN <<Head(nodes).as_string>> ELSE <<>>)
         \o decorator_names_of(Tail(nodes))

get_function_decorator_names(function_def) == decorator_names_of(function_def.decorators)

\* get_call_node_hash: repr(call) of an astroid node holds the node's class, its
\* line and id(call); the nodes are kept alive by the caches, so ids are distinct
get_call_node_hash(call) == <<"Call", call>>

\* Optional[str] results, and an exception that escapes
None == [tag |-> "None", value |-> ""]

Str(value) == [tag |-> "str", value |-> value]

Raise(exception) == [tag |-> exception, value |-> ""]

reversed(seq) == [i \in 1..Len(seq) |-> seq[Len(seq) + 1 - i]]

\* sep.join(strings)
RECURSIVE join(_, _)
join(sep, strings) ==
    IF strings = <<>> THEN ""
    ELSE IF Len(strings) = 1 THEN strings[1]
    ELSE LET half == Len(strings) \div 2
         IN  join(sep, SubSeq(strings, 1, half)) \o sep
             \o join(sep, SubSeq(strings, half + 1, Len(strings)))

\* The while loop of get_call_name on call.func.  After k iterations call_func
\* is the expression k nodes below call.func.  The loop ends at iteration
\* `iterations`: by its condition (calls_length reached the limit), by break
\* (a Name), or by return None (any other node); call_name_parts is what the
\* iterations before appended, and the Name on break.
get_call_name_loop(func) ==
    LET call_func(k) == func[Len(func) - k]
        walks_on(k) == k < Len(func) /\ call_func(k).type \in {"Attribute", "Call"}
        iterations == CHOOSE k \in 0..reasonable_calls_length :
                          /\ k = reasonable_calls_length \/ ~walks_on(k)
                          /\ \A j \in 0..(k - 1) : walks_on(j)
        ran_out == ~(iterations < reasonable_calls_length)
        walked == [k \in 1..iterations |-> call_func(k - 1)]
        attributes == SelectSeq(walked, LAMBDA node : node.type = "Attribute")
        attrnames == [k \in 1..Len(attributes) |-> attributes[k].attrname]
    IN  IF ran_out
        THEN [returned_none |-> FALSE, call_name_parts |-> attrnames]
        ELSE IF call_func(iterations).type = "Name"
        THEN [returned_none |-> FALSE,
              call_name_parts |-> Append(attrnames, call_func(iterations).name)]
        ELSE [returned_none |-> TRUE, call_name_parts |-> <<>>]

\* get_call_name of a Call node with this func expression and this frame
call_name_of(func, function_def) ==
    IF node_of(func).type = "Name" THEN Str(node_of(func).name)
    ELSE LET loop == get_call_name_loop(func)
             call_name_parts == reversed(loop.call_name_parts)
         IN  IF loop.returned_none THEN None
             ELSE IF function_def.is_method /\ call_name_parts = <<>>
             THEN Raise("IndexError")
             ELSE IF function_def.is_method /\ call_name_parts[1] \in {"self", "cls"}
             THEN Str(join(".", [call_name_parts EXCEPT ![1] = function_def.parent_name]))
             ELSE Str(join(".", call_name_parts))

\* get_call_name depends on the Call node alone: its results, node by node
call_names == [call \in DOMAIN Calls |-> call_name_of(Calls[call].func, frame(call))]

get_call_name(call) == call_names[call]

get_function_name(function_def) ==
    IF function_def.is_method
    THEN function_def.parent_name \o "." \o function_def.name
    ELSE function_def.name

-----------------------------------------------------------------------------
(* blocking_calls.py: BlockingCallsChecker *)

is_function_frame(function_def) == function_def.type \in {"FunctionDef", "AsyncFunctionDef"}

\* _should_call_be_checked without the loop over skip_functions
should_call_be_checked_no_skip_functions(call, module_name) ==
    /\ is_function_frame(frame(call))
    /\ ~any_match(skip_modules, module_name)

\* _should_call_be_checked without the loop over skip_modules
should_call_be_checked_no_skip_modules(call, module_name) ==
    /\ is_function_frame(frame(call))
    /\ ~any_match(skip_functions, frame(call).name)

\* _should_call_be_checked without the test of call.frame()
should_call_be_checked_no_frame_check(call, module_name) ==
    /\ ~any_match(skip_modules, module_name)
    /\ ~any_match(skip_functions, frame(call).name)

\* _should_call_be_checked, with linter.current_name = module_name
should_call_be_checked(call, module_name) ==
    /\ is_function_frame(frame(call))
    /\ ~any_match(skip_modules, module_name)
    /\ ~any_match(skip_functions, frame(call).name)

\* _is_blocking_function_call
is_blocking_function_call(call_name) == any_match(blocking_function_names, call_name)

\* self._all_visited_calls[call_name].append(call) on a defaultdict(list)
defaultdict_append(dict, key, item) ==
    IF key \in DOMAIN dict
    THEN [dict EXCEPT ![key] = Append(@, item)]
    ELSE [k \in DOMAIN dict \cup {key} |-> IF k = key THEN <<item>> ELSE dict[k]]

\* self._all_visited_calls.get(name) or []
dict_get_or_empty(dict, key) == IF key \in DOMAIN dict THEN dict[key] ELSE <<>>

\* _get_calls_of_function looking the function up by its bare name
get_calls_of_function_bare_name(index, function_def) ==
    dict_get_or_empty(index, function_def.name)

\* _get_calls_of_function handing the callers back last-appended first
get_calls_of_function_reversed(index, function_def) ==
    reversed(dict_get_or_empty(index, get_function_name(function_def)))

\* _get_calls_of_function
get_calls_of_function(index, function_def) ==
    dict_get_or_empty(index, get_function_name(function_def))

Range(seq) == {seq[i] : i \in 1..Len(seq)}

\* every Call node the caches hold
recorded_calls(index) == UNION {Range(index[k]) : k \in DOMAIN index}

\* _should_stop_traversal without the loop check
should_stop_traversal_no_loop_check(call, traversed_sequence) ==
    \E i \in 1..Len(skip_decorated) :
       \E name \in Range(get_function_decorator_names(frame(call))) :
          match(skip_decorated[i], name)

\* _should_stop_traversal without the decorator check
should_stop_traversal_no_decorator_check(call, traversed_sequence) ==
    call \in Range(traversed_sequence)

\* _should_stop_traversal
should_stop_traversal(call, traversed_sequence) ==
    \/ call \in Range(traversed_sequence)
    \/ \E i \in 1..Len(skip_decorated) :
         \E name \in Range(get_function_decorator_names(frame(call))) :
            match(skip_decorated[i], name)

\* _call_sequence_to_str; str.join raises TypeError on a None item
call_sequence_to_str(calls_sequence) ==
    IF \E i \in 1..Len(calls_sequence) : get_call_name(calls_sequence[i]).tag # "str"
    THEN Raise("TypeError")
    ELSE Str(join(" -> ", [i \in 1..Len(calls_sequence) |-> get_call_name(calls_sequence[i]).value]))

\* line 123 with the test inverted
already_reported_inverted(call, hashes) == get_call_node_hash(call) \notin hashes

\* line 123 with the test left out
already_reported_never(call, hashes) == FALSE

\* the check of line 123: has this node been reported already
already_reported(call, hashes) == get_call_node_hash(call) \in hashes

\* _add_blocking_call_message given traversed_sequence as it is, not reversed
add_blocking_call_message_not_reversed(st, blocking_call, traversed_sequence) ==
    LET calls_sequence == <<blocking_call>> \o traversed_sequence
        text == call_sequence_to_str(calls_sequence)
    IN  IF text.tag # "str"
        THEN [st EXCEPT !.raised = text.tag]
        ELSE [st EXCEPT
                !.messages = Append(@, [msgid |-> "blocking-call", node |-> blocking_call,
                                        args |-> text.value, calls_sequence |-> calls_sequence]),
                !.hashes = @ \cup {get_call_node_hash(blocking_call)}]

\* _add_blocking_call_message without the update of _blocking_calls_hashes
add_blocking_call_message_hash_not_added(st, blocking_call, traversed_sequence) ==
    LET calls_sequence == <<blocking_call>> \o reversed(traversed_sequence)
        text == call_sequence_to_str(calls_sequence)
    IN  IF text.tag # "str"
        THEN [st EXCEPT !.raised = text.tag]
        ELSE [st EXCEPT
                !.messages = Append(@, [msgid |-> "blocking-call", node |-> blocking_call,
                                        args |-> text.value, calls_sequence |-> calls_sequence])]

\* _add_blocking_call_message followed by the update of _blocking_calls_hashes
\* (lines 125-126), on the traversal's running result
add_blocking_call_message(st, blocking_call, traversed_sequence) ==
    LET calls_sequence == <<blocking_call>> \o reversed(traversed_sequence)
        text == call_sequence_to_str(calls_sequence)
    IN  IF text.tag # "str"
        THEN [st EXCEPT !.raised = text.tag]
        ELSE [st EXCEPT
                !.messages = Append(@, [msgid |-> "blocking-call", node |-> blocking_call,
                                        args |-> text.value, calls_sequence |-> calls_sequence]),
                !.hashes = @ \cup {get_call_node_hash(blocking_call)}]

\* whether the frame ends the path (line 122)
is_async_frame(function_def) == function_def.type = "AsyncFunctionDef"

\* the traversal going on to the callers of every function, asynchronous or not
continues_to_callers_always(function_def) == TRUE

\* the `continue` that ends the branch of an asynchronous function: only from a
\* synchronous function does the loop body reach the recursive call
continues_to_callers(function_def) == ~is_async_frame(function_def)

\* _traverse_blocking_function_calls: the for loop from its i-th item on.
\* st is the running result: the reported hashes, the messages, the exception
\* that escaped if any, and the deepest recursion seen.
RECURSIVE traverse_blocking_function_calls(_, _, _, _, _)
traverse_blocking_function_calls(index, calls_to_traverse, traversed_sequence, i, st) ==
    IF st.raised # "none" \/ i > Len(calls_to_traverse) THEN st
    ELSE
      LET call == calls_to_traverse[i]
          function_def == frame(call)
          reported ==
            IF is_async_frame(function_def) /\ ~already_reported(call, st.hashes)
            THEN add_blocking_call_message(st, call, traversed_sequence)
            ELSE st
          after ==
            IF should_stop_traversal(call, traversed_sequence) THEN st
            ELSE IF ~continues_to_callers(function_def) THEN reported
            ELSE IF Len(traversed_sequence) + 1 > RecursionLimit
            THEN [reported EXCEPT !.raised = "RecursionError"]
            ELSE traverse_blocking_function_calls(
                     index, get_calls_of_function(index, function_def),
                     Append(traversed_sequence, call), 1,
                     [reported EXCEPT !.depth = IF Len(traversed_sequence) + 1 > @
                                                THEN Len(traversed_sequence) + 1 ELSE @])
      IN  traverse_blocking_function_calls(index, calls_to_traverse, traversed_sequence,
                                           i + 1, after)

-----------------------------------------------------------------------------
(* The state machine *)

\* __init__, and the linter's current_name as the tests' setup_method sets it
Init ==
    /\ all_visited_calls = [k \in {} |-> <<>>]
    /\ calls_of_blocking_functions = <<>>
    /\ blocking_calls_hashes = {}
    /\ messages = <<>>
    /\ current_name = "test_file"
    /\ raised = "none"
    /\ last = [op |-> "init", call |-> "", depth |-> 0, emitted |-> 0]

\* the host starts on another module: linter.current_name = module_name
set_current_name(module_name) ==
    /\ raised = "none"
    /\ module_name # current_name
    /\ current_name' = module_name
    /\ UNCHANGED <<all_visited_calls, calls_of_blocking_functions, blocking_calls_hashes,
                   messages, raised, last>>

\* visit_call(call): the host visits a Call node of the current module, each
\* node once
visit_call(call) ==
    /\ raised = "none"
    /\ Calls[call].module = current_name
    /\ call \notin recorded_calls(all_visited_calls)
    /\ Cardinality(recorded_calls(all_visited_calls)) < MaxCalls
    /\ LET checked == should_call_be_checked(call, current_name)
           call_name == IF checked THEN get_call_name(call) ELSE None
       IN  /\ all_visited_calls' =
                 IF call_name.tag = "str"
                 THEN defaultdict_append(all_visited_calls, call_name.value, call)
                 ELSE all_visited_calls
           /\ calls_of_blocking_functions' =
                 IF call_name.tag = "str" /\ is_blocking_function_call(call_name.value)
                 THEN Append(calls_of_blocking_functions, call)
                 ELSE calls_of_blocking_functions
           /\ raised' = IF call_name.tag \in {"str", "None"} THEN "none" ELSE call_name.tag
    /\ last' = [op |-> "visit_call", call |-> call, depth |-> 0, emitted |-> 0]
    /\ UNCHANGED <<blocking_calls_hashes, messages, current_name>>

\* close()
close ==
    /\ raised = "none"
    /\ LET st == traverse_blocking_function_calls(
                     all_visited_calls, calls_of_blocking_functions, <<>>, 1,
                     [hashes |-> blocking_calls_hashes, messages |-> messages,
                      raised |-> "none", depth |-> 0])
       IN  /\ blocking_calls_hashes' = st.hashes
           /\ messages' = st.messages
           /\ raised' = st.raised
           /\ last' = [op |-> "close", call |-> last.call, depth |-> st.depth,
                       emitted |-> Len(st.messages) - Len(messages)]
    /\ UNCHANGED <<all_visited_calls, calls_of_blocking_functions, current_name>>

Next ==
    \/ \E module_name \in Modules : set_current_name(module_name)
    \/ \E call \in CallIds : visit_call(call)
    \/ close

Spec == Init /\ [][Next]_vars

\* the host visits the Call nodes that exercise name resolution
NextNames ==
    \/ \E call \in ResolutionCallIds : visit_call(call)
    \/ close

SpecNames == Init /\ [][NextNames]_vars

-----------------------------------------------------------------------------
(* Vocabulary of the properties *)

\* the Call Index's call sites, and the BlockingCallRegistry's
Recorded == recorded_calls(all_visited_calls)

Registry == Range(calls_of_blocking_functions)

AfterClose == last.op = "close"

\* the indices of the diagnostics anchored at a call site
MessagesAt(call) == {i \in 1..Len(messages) : messages[i].node = call}

\* the function carries a decorator name that a skip-decorated pattern matches
HasSkipDecorator(function_def) ==
    \E d \in Range(function_def.decorators) :
        d.type = "Name" /\ any_match(skip_decorated, d.as_string)

InSkippedFunction(call) == any_match(skip_functions, frame(call).name)

InSkippedModule(call) == any_match(skip_modules, Calls[call].module)

NameOf(call) == get_call_name(call).value

\* c may stand in front of the path p: it is not on p, and it names the
\* function that encloses p's first call site
CallsInto(c, p) ==
    /\ c \notin Range(p)
    /\ NameOf(c) = get_function_name(frame(p[1]))

\* the paths <<c2, ..., cn, b>> of n call sites: pairwise distinct, all in
\* synchronous functions that are not skip-decorated, each naming the function
\* that encloses the next, b registered as a blocking call
RECURSIVE SyncPaths(_)
SyncPaths(n) ==
    IF n = 1
    THEN {<<b>> : b \in {r \in Registry : ~is_async_frame(frame(r)) /\ ~HasSkipDecorator(frame(r))}}
    ELSE UNION {{<<c>> \o p : c \in {r \in Recorded : /\ ~is_async_frame(frame(r))
                                                      /\ ~HasSkipDecorator(frame(r))
                                                      /\ CallsInto(r, p)}} :
                p \in SyncPaths(n - 1)}

\* the chains <<c1, ..., cn, b>>: c1 lies in an asynchronous function, every
\* other call site in a synchronous one, no function on the way is
\* skip-decorated, the call sites are pairwise distinct, each names the
\* function that encloses the next, and b is registered as a blocking call
BlockingChains ==
    LET starts == {r \in Recorded : is_async_frame(frame(r)) /\ ~HasSkipDecorator(frame(r))}
        tails == UNION {SyncPaths(n) : n \in 1..Cardinality(Recorded)}
    IN  {<<b>> : b \in starts \cap Registry}
        \cup UNION {{<<c>> \o p : c \in {r \in starts : CallsInto(r, p)}} : p \in tails}

ChainText(p) == join(" -> ", [k \in 1..Len(p) |-> NameOf(p[k])])

LastOf(seq) == seq[Len(seq)]

-----------------------------------------------------------------------------
(* C1 *)

\* a recorded, not awaited call of a blocking name, directly in an
\* asynchronous function that is not skip-decorated
DirectBlockingCall(c) ==
    /\ c \in Recorded
    /\ ~Calls[c].awaited
    /\ any_match(blocking_function_names, NameOf(c))
    /\ is_async_frame(frame(c))
    /\ ~HasSkipDecorator(frame(c))

NoSyncBodyNamed(name) ==
    ~\E r \in Recorded : ~is_async_frame(frame(r)) /\ get_function_name(frame(r)) = name

-----------------------------------------------------------------------------
(* C2 *)

-----------------------------------------------------------------------------
(* C3 *)

\* C3 as stated: after close(), every registered blocking call that ends a
\* chain into an asynchronous function is the last element of some emitted
\* diagnostic's chain.
C3_EveryBlockingCallReported ==
    AfterClose =>
        LET chains == BlockingChains
        IN  \A b \in Registry :
            (\E p \in chains : LastOf(p) = b) =>
                \E i \in 1..Len(messages) : LastOf(messages[i].calls_sequence) = b

\* get_session holds two blocking calls and is called once from handler:
\* close() has run and no diagnostic mentions the second one
C3_SecondBlockingCallDropped ==
    /\ AfterClose
    /\ Recorded = {"a1", "a2", "c2"}
    /\ calls_of_blocking_functions = <<"a1", "a2", "c2">>
    /\ Len(messages) = 1
    /\ messages[1].args = "get_session -> session.commit"

-----------------------------------------------------------------------------
(* C4 *)

-----------------------------------------------------------------------------
(* C5 *)

\* C5 as stated: an awaited call is never in the BlockingCallRegistry and no
\* diagnostic is anchored at it.
C5_AwaitedNeverRegistered ==
    \A c \in CallIds :
        Calls[c].awaited => c \notin Registry /\ MessagesAt(c) = {}

-----------------------------------------------------------------------------
(* C6 *)

\* C6: no emitted diagnostic has a chain with a call site whose enclosing
\* function carries a skip-decorated decorator name; after close() a call site
\* of an asynchronous function whose only chains to a blocking call pass
\* through such a function has no diagnostic.
C6_NoSkipDecoratedInChains ==
    /\ \A i \in 1..Len(messages) :
          \A k \in 1..Len(messages[i].calls_sequence) :
              ~HasSkipDecorator(frame(messages[i].calls_sequence[k]))
    /\ LET chains == BlockingChains
       IN  \A c \in Recorded : (~\E p \in chains : p[1] = c) => MessagesAt(c) = {}

\* scenario 3: handler calls threaded (@thread), which calls get_session, which
\* calls session.commit(); close() has run and reported nothing
C6_Witness ==
    /\ AfterClose
    /\ Recorded = {"a1", "e1", "c4"}
    /\ Registry = {"a1", "e1"}
    /\ messages = <<>>

-----------------------------------------------------------------------------
(* C7 *)

\* C7: no call site inside a function whose name matches a skip-function
\* pattern is in the Call Index or the BlockingCallRegistry, or is the anchor
\* or a chain element of a diagnostic; visit_call of such a call records
\* nothing.
C7_SkippedFunctionsNeverRecorded ==
    /\ \A c \in Recorded \cup Registry : ~InSkippedFunction(c)
    /\ \A i \in 1..Len(messages) :
          /\ ~InSkippedFunction(messages[i].node)
          /\ \A k \in 1..Len(messages[i].calls_sequence) :
                ~InSkippedFunction(messages[i].calls_sequence[k])
    /\ (last.call # "" /\ InSkippedFunction(last.call)) => last.call \notin Recorded

\* the blocking call in delete_flow was visited last, after the blocking call
\* it would lead to and the call of delete_flow in handler; close() has run
C7_Witness ==
    /\ AfterClose
    /\ last.call = "s1"
    /\ Recorded = {"a1", "c5"}
    /\ messages = <<>>

-----------------------------------------------------------------------------
(* C8 *)

\* C8: no call site of a module whose name matches a skip-module pattern is in
\* the Call Index or the BlockingCallRegistry, or is the anchor or a chain
\* element of a diagnostic, however many times close() ran; visit_call of such
\* a call records nothing.
C8_SkippedModulesNeverRecorded ==
    /\ \A c \in Recorded \cup Registry : ~InSkippedModule(c)
    /\ \A i \in 1..Len(messages) :
          /\ ~InSkippedModule(messages[i].node)
          /\ \A k \in 1..Len(messages[i].calls_sequence) :
                ~InSkippedModule(messages[i].calls_sequence[k])
    /\ (last.call # "" /\ InSkippedModule(last.call)) => last.call \notin Recorded

\* the blocking call of the skipped module was visited after calls of another
\* module were recorded and reported, and close() ran again
C8_Witness ==
    /\ AfterClose
    /\ last.call = "w1"
    /\ Recorded # {}
    /\ Len(messages) > 0

-----------------------------------------------------------------------------
(* C9 *)

\* C9: close() raises no error, and its recursion never goes deeper than the
\* number of recorded call sites.
C9_TraversalTerminates ==
    /\ raised = "none"
    /\ last.depth <= Cardinality(Recorded)

\* get_session and helper call each other, and close() went as deep as there
\* are recorded call sites before it met a call site already on its path
C9_Witness ==
    /\ AfterClose
    /\ Recorded = {"a1", "b1", "a3"}
    /\ last.depth = 3

-----------------------------------------------------------------------------
(* C10 *)

\* the call's target is a subscript, the result of another call, or a method
\* of a literal or a comprehension
UnnamedTarget(c) ==
    LET func == Calls[c].func
    IN  \/ node_of(func).type \in {"Subscript", "Call"}
        \/ /\ node_of(func).type = "Attribute"
           /\ node_of(child_of(func)).type \in {"Const", "List", "DictComp"}

\* C10 as stated: for a call with an unnamed target inside a function, name
\* resolution returns None, visit_call leaves the Call Index without the call,
\* and no diagnostic mentions it.
C10_UnnamedCallsIgnored ==
    \A c \in CallIds :
        (UnnamedTarget(c) /\ is_function_frame(frame(c))) =>
            /\ last.call = c => get_call_name(c) = None
            /\ c \notin Recorded
            /\ \A i \in 1..Len(messages) : c \notin Range(messages[i].calls_sequence)

-----------------------------------------------------------------------------
(* C11 *)

\* the call's frame is the module or a class body, not a function definition
OutsideFunction(c) == ~is_function_frame(frame(c))

\* C11: a visit_call step on a call that is at module scope or directly in a
\* class body leaves the Call Index, the BlockingCallRegistry and the reported
\* set (and the diagnostics) unchanged, whatever the call's name.
C11_NoFrameNoEffect ==
    [][(last'.op = "visit_call" /\ OutsideFunction(last'.call)) =>
           UNCHANGED <<all_visited_calls, calls_of_blocking_functions,
                       blocking_calls_hashes, messages>>]_vars

\* the call in the class body, of a blocking name, was visited last, after
\* other calls were recorded, registered and reported
C11_Witness ==
    /\ last.op = "visit_call"
    /\ last.call = "t2"
    /\ is_blocking_function_call(NameOf("t2"))
    /\ Recorded # {}
    /\ calls_of_blocking_functions # <<>>
    /\ blocking_calls_hashes # {}

-----------------------------------------------------------------------------
(* C12 (checked under SpecNames) *)

\* the call is written self.m(...) or cls.m(...) directly in a method
SelfOrClsCall(c) ==
    LET func == Calls[c].func
    IN  /\ frame(c).is_method
        /\ Len(func) = 2
        /\ node_of(func).type = "Attribute"
        /\ node_of(child_of(func)).type = "Name"
        /\ node_of(child_of(func)).name \in {"self", "cls"}

\* the function definitions a recorded call c refers to: the method m of the
\* class of c's own method for self.m / cls.m, the free function g for g(...)
Callees(c) ==
    LET func == Calls[c].func
    IN  {g \in DOMAIN Frames :
            /\ is_function_frame(Frames[g])
            /\ \/ /\ SelfOrClsCall(c)
                  /\ Frames[g].is_method
                  /\ Frames[g].parent_name = frame(c).parent_name
                  /\ Frames[g].name = node_of(func).attrname
               \/ /\ node_of(func).type = "Name"
                  /\ ~Frames[g].is_method
                  /\ Frames[g].name = node_of(func).name}

\* C12: a recorded call self.m(...) or cls.m(...) in a method of class C has
\* the canonical name 'C.m', which is the name get_function_name gives the
\* method m of C, and the index lookup for m returns that call site; a
\* recorded call g(...) is returned by the index lookup for the free function g.
C12_CallersFoundUnderFunctionName ==
    \A c \in Recorded :
        /\ SelfOrClsCall(c) =>
               NameOf(c) = frame(c).parent_name \o "." \o node_of(Calls[c].func).attrname
        /\ \A g \in Callees(c) :
               /\ NameOf(c) = get_function_name(Frames[g])
               /\ c \in Range(get_calls_of_function(all_visited_calls, Frames[g]))

\* self.step() in Object.run and cls.step() in Object.make are recorded with
\* the blocking call inside Object.step, and close() reached self.step() from
\* that blocking call through the lookup under 'Object.step'
C12_Witness ==
    /\ AfterClose
    /\ Recorded = {"m1", "m2", "m3"}
    /\ Callees("m1") = {"step"}
    /\ Callees("m3") = {"step"}
    /\ \E i \in MessagesAt("m1") : messages[i].calls_sequence = <<"m1", "m2">>

-----------------------------------------------------------------------------
(* C13 *)

\* the diagnostics the last close() emitted, in the order it emitted them
EmittedByLastClose == SubSeq(messages, Len(messages) - last.emitted + 1, Len(messages))

PositionIn(seq, item) == CHOOSE i \in 1..Len(seq) : seq[i] = item

\* p's path is walked before q's by a depth-first walk that starts from the
\* registered calls in registration order and takes the callers of a function
\* in the order visit_call appended them: read from the blocking call towards
\* the anchor, at the first call site where the paths part p's comes first
WalkedBefore(p, q) ==
    LET from_p == reversed(p)
        from_q == reversed(q)
        shorter == IF Len(p) < Len(q) THEN Len(p) ELSE Len(q)
        parting == {k \in 1..shorter : from_p[k] # from_q[k]}
    IN  /\ parting # {}
        /\ LET d == CHOOSE k \in parting : \A j \in parting : k <= j
           IN  IF d = 1
               THEN PositionIn(calls_of_blocking_functions, from_p[1])
                        < PositionIn(calls_of_blocking_functions, from_q[1])
               ELSE /\ NameOf(from_p[d]) = NameOf(from_q[d])
                    /\ LET appended == all_visited_calls[NameOf(from_p[d])]
                       IN  PositionIn(appended, from_p[d]) < PositionIn(appended, from_q[d])

\* C13: the diagnostics of one close() come in depth-first order: of two of
\* them the earlier one's path is walked first, by registration order of the
\* blocking calls they start from and, below a common start, by the order in
\* which the callers of a function were appended to the Call Index.
C13_DiagnosticsInDepthFirstOrder ==
    AfterClose =>
        LET emitted == EmittedByLastClose
        IN  \A i, j \in 1..Len(emitted) :
                i < j => WalkedBefore(emitted[i].calls_sequence, emitted[j].calls_sequence)

\* one close() emitted two diagnostics that start from the same blocking call;
\* get_session() in worker was visited before get_session() in handler and is
\* reported first
C13_Witness ==
    /\ AfterClose
    /\ last.emitted = 2
    /\ calls_of_blocking_functions = <<"a1", "d1", "c2">>
    /\ "get_session" \in DOMAIN all_visited_calls
    /\ all_visited_calls["get_session"] = <<"d1", "c2">>
    /\ EmittedByLastClose[1].calls_sequence = <<"d1", "a1">>
    /\ EmittedByLastClose[2].calls_sequence = <<"c2", "a1">>

-----------------------------------------------------------------------------
(* C14 *)

\* c lies in an asynchronous function and calls an asynchronous function: its
\* name is no blocking name, and every function definition of that name (there
\* is one) is asynchronous
AsyncCallerOfAsync(c) ==
    /\ c \in Recorded
    /\ is_async_frame(frame(c))
    /\ ~is_blocking_function_call(NameOf(c))
    /\ \E f \in DOMAIN Frames : get_function_name(Frames[f]) = NameOf(c)
    /\ \A f \in DOMAIN Frames :
           get_function_name(Frames[f]) = NameOf(c) => is_async_frame(Frames[f])

\* C14: the traversal does not go past an asynchronous function.  In every
\* emitted chain only the first call site lies in an asynchronous function, and
\* a call site in an asynchronous function that calls an asynchronous function
\* anchors no diagnostic.
C14_NothingPastAsyncFunction ==
    /\ \A i \in 1..Len(messages) :
           \A k \in 2..Len(messages[i].calls_sequence) :
               ~is_async_frame(frame(messages[i].calls_sequence[k]))
    /\ \A c \in CallIds : AsyncCallerOfAsync(c) => MessagesAt(c) = {}

\* handler() in the asynchronous worker is recorded, the asynchronous handler
\* reaches a blocking call through get_session, and close() reported
\* get_session() in handler only
C14_Witness ==
    /\ AfterClose
    /\ AsyncCallerOfAsync("d2")
    /\ Len(messages) = 1
    /\ messages[1].calls_sequence = <<"c2", "a1">>

-----------------------------------------------------------------------------
(* C15 (checked under SpecNames) *)

\* the call target is a chain of Attribute and Call nodes with its Name more
\* than reasonable_calls_length steps below the target
NameBeyondLimit(c) ==
    LET func == Calls[c].func
    IN  /\ Len(func) - 1 > reasonable_calls_length
        /\ func[1].type = "Name"
        /\ \A k \in 2..Len(func) : func[k].type \in {"Attribute", "Call"}

\* C15 as stated: when the walk to the Name of a call target needs more steps
\* than reasonable_calls_length, get_call_name returns None, raises nothing and
\* returns no partial name, and visit_call records nothing for the call.
C15_LongTargetUnresolved ==
    \A c \in ResolutionCallIds :
        (last.op = "visit_call" /\ last.call = c /\ NameBeyondLimit(c)) =>
            /\ get_call_name(c) = None
            /\ raised = "none"
            /\ c \notin Recorded

-----------------------------------------------------------------------------
(* C16 *)

\* the reported set holds exactly the anchors of the diagnostics emitted so
\* far, and no call site anchors two of them
ReportedAreTheAnchors ==
    /\ blocking_calls_hashes = {get_call_node_hash(messages[i].node) : i \in 1..Len(messages)}
    /\ \A c \in CallIds : Cardinality(MessagesAt(c)) <= 1

\* one step of the checker: diagnostics are only added, the reported set only
\* grows, by exactly the anchors of the diagnostics the step emits, none of
\* which was in it; and a close() that follows a close() emits nothing
ReportedGrowsWithDiagnostics ==
    LET emitted == {i \in 1..Len(messages') : i > Len(messages)}
    IN  /\ Len(messages) <= Len(messages')
        /\ SubSeq(messages', 1, Len(messages)) = messages
        /\ blocking_calls_hashes \subseteq blocking_calls_hashes'
        /\ blocking_calls_hashes' \ blocking_calls_hashes
               = {get_call_node_hash(messages'[i].node) : i \in emitted}
        /\ \A i \in emitted : get_call_node_hash(messages'[i].node) \notin blocking_calls_hashes
        /\ (last.op = "close" /\ last'.op = "close") =>
               (messages' = messages /\ blocking_calls_hashes' = blocking_calls_hashes)

\* C16: over any sequence of visit_call and close(), each call site anchors at
\* most one diagnostic in total: the reported set only grows, a call site
\* enters it exactly when its diagnostic is emitted, and a close() that
\* follows a close() with no visit_call in between emits nothing.
C16_OneDiagnosticPerAnchorForEver ==
    []ReportedAreTheAnchors /\ [][ReportedGrowsWithDiagnostics]_vars

\* the call site visited last anchors a diagnostic, and the last close()
\* emitted nothing: it followed the close() that reported the call site, with
\* no visit_call in between
C16_Witness ==
    /\ AfterClose
    /\ last.emitted = 0
    /\ MessagesAt(last.call) # {}
    /\ get_call_node_hash(last.call) \in blocking_calls_hashes

-----------------------------------------------------------------------------
(* C17 *)

\* the chain <<c0, ..., cn>> is a path of the recorded data
RealPath(chain) ==
    /\ chain # <<>>
    /\ is_async_frame(frame(chain[1]))
    /\ LastOf(chain) \in Registry
    /\ \A k \in 1..Len(chain) : chain[k] \in Recorded
    /\ \A k, l \in 1..Len(chain) : k # l => chain[k] # chain[l]
    /\ \A k \in 1..(Len(chain) - 1) :
           NameOf(chain[k]) = get_function_name(frame(chain[k + 1]))

\* C17: every emitted diagnostic describes a real path: its chain starts at
\* its anchor, which lies in an asynchronous function, ends at a registered
\* blocking call, consists of pairwise distinct recorded call sites, each
\* call site names the function that encloses the next one, and the text is
\* the chain's canonical names from left to right.
C17_DiagnosticsDescribeRealPaths ==
    \A i \in 1..Len(messages) :
        /\ RealPath(messages[i].calls_sequence)
        /\ messages[i].node = messages[i].calls_sequence[1]
        /\ messages[i].args = ChainText(messages[i].calls_sequence)

\* close() reported helper() in handler with the path through get_session()
\* in helper to session.commit() in get_session
C17_Witness ==
    /\ AfterClose
    /\ \E i \in 1..Len(messages) :
          /\ messages[i].calls_sequence = <<"c1", "b1", "a1">>
          /\ messages[i].args = "helper -> get_session -> session.commit"
          /\ RealPath(messages[i].calls_sequence)
====
